---- MODULE Spec2Model ----
(***************************************************************************)
(* Session orchestration engine of the call-center API gateway             *)
(* (src/api-gateway/app/main.py, utils.py, schemas.py).                    *)
(*                                                                         *)
(* One websocket session is modelled together with the tasks that touch    *)
(* it: the endpoint coroutine (admission, pre-loop setup, message loop,    *)
(* except/finally teardown), the stage monitor, the heartbeat and the      *)
(* administrative forced-transfer request.  asyncio is cooperative, so a   *)
(* step of the model is the code of one task between two suspension        *)
(* points (await of a backend call, a websocket send/receive, a sleep).    *)
(*                                                                         *)
(* Names that main.py uses but does not define (send_error,                *)
(* route_text_message, route_audio_message, send_welcome_message,          *)
(* connect_to_human_agent, ConnectionManager.disconnect) are modelled      *)
(* from the specification text; detect_conversation_stage is modelled by   *)
(* the value its body computes.                                            *)
(***************************************************************************)
EXTENDS Integers, Sequences, FiniteSets, TLC

\* ---------------------------------------------------------------- bounds
NumQuestions == 2      \* lead questions an organization may configure
MaxInbound == 2        \* inbound websocket events per session
MaxAdmin == 1          \* administrative forced-transfer requests
MaxDuration == 1900    \* largest call duration (s) of the stage function check
NumSelect == 4         \* lead questions of the question-selection check
MaxDt == 30            \* largest gap (s) between two stage-monitor readings
NumSessions == 2       \* session ids of one process

\* ---------------------------------------------------- program constants
GreetingLimit == 30        \* utils.py:54
DefaultMaxDuration == 600  \* utils.py:49
HumanMaxDuration == 1800   \* utils.py:52

\* ------------------------------------------------------------ schemas.py
PlanType == {"human_only", "ai_only", "hybrid"}
AgentMode == {"ai", "human", "transferring"}
TransferReason == {"user_request", "ai_confidence_low", "escalation", "complex_query"}
ConversationStage == {"greeting", "middle", "closing", "ended"}

None == "None"

Questions == 1..NumQuestions

\* LeadQuestion reference data: question 1 is the greeting question of
\* order 1, the others are middle-stage questions in ascending order; every
\* third question is optional.
LeadQuestion(q) ==
    [question_id |-> q,
     required |-> (q % 3 # 0),
     order |-> q,
     trigger_condition |-> IF q = 1 THEN "greeting" ELSE "middle"]

\* OrganizationConfig.validate_lead_questions: a configuration with a
\* greeting-stage question needs some question with order = 1.
validate_lead_questions(qs) ==
    (\E q \in qs : LeadQuestion(q).trigger_condition = "greeting")
        => (\E q \in qs : LeadQuestion(q).order = 1)

\* The configurations considered hold the first k questions, k = 0..NumQuestions.
OrganizationConfig ==
    {c \in [plan_type : PlanType, lead_questions : {1..k : k \in 0..NumQuestions}] :
        validate_lead_questions(c.lead_questions)}

\* ----------------------------------------------------------------- utils.py
\* detect_conversation_stage: duration > max_duration * 0.8 is compared in
\* integers as 5 * duration > 4 * max_duration.
StageFallsBackPastCeiling(plan_type, duration) ==
    LET max_duration == IF plan_type = "human_only" THEN HumanMaxDuration
                        ELSE DefaultMaxDuration
    IN  IF duration < GreetingLimit THEN "greeting"
        ELSE IF duration > max_duration THEN "middle"
        ELSE IF 5 * duration > 4 * max_duration THEN "closing"
        ELSE "middle"

detect_conversation_stage(plan_type, duration) ==
    LET max_duration == IF plan_type = "human_only" THEN HumanMaxDuration
                        ELSE DefaultMaxDuration
    IN  IF duration < GreetingLimit THEN "greeting"
        ELSE IF 5 * duration > 4 * max_duration THEN "closing"
        ELSE IF duration > max_duration THEN "ended"
        ELSE "middle"

StageRank(s) ==
    CASE s = "greeting" -> 0 [] s = "middle" -> 1 [] s = "closing" -> 2 [] s = "ended" -> 3

\* Confidence is modelled in tenths; the threshold is the schema default 0.7.
AiConfidenceThreshold == 7   \* schemas.py:49
Confidences == {5, 7}

\* --------------------------------------------------------------- state
VARIABLES
    process,             \* every session of the process, by session id
    prompts,             \* question ids of the lead_question events sent
    redis_up,            \* the store accepts writes (setex does not raise)
    req,                 \* the service_request call under observation
    orgStore,            \* OrganizationConfig served by the voice service
    pc,                  \* position of the websocket_endpoint coroutine
    session,             \* the SessionInfo object of the connection
    org_config,          \* websocket_endpoint's local org_config (line 204)
    active_connections,  \* session_id in manager.active_connections
    session_info,        \* session_id in manager.session_info
    stored,              \* redis "session:<id>" snapshot
    context,             \* redis "context:<id>": sequence of turn roles
    wsOpen,              \* the peer is connected and the socket writable
    now,                 \* time.time() - start_time at the monitor's last reading
    inbound,             \* inbound events received so far
    loop,                \* locals of the handler the message loop is in
    mon,                 \* monitor_session task: position and question queue
    hb,                  \* send_heartbeat task position
    admin,               \* force_transfer request: position, count, result
    calls,               \* backend calls made so far, per collaborator endpoint
    emit,                \* events the endpoint sent handling the current inbound event
    turn                 \* what the current inbound event's handler has done

vars == <<process, prompts, redis_up, req, orgStore, pc, session, org_config, active_connections, session_info,
          stored, context, wsOpen, now, inbound, loop, mon, hb, admin, calls,
          emit, turn>>

\* Durations at which the monitor reads the clock in the session model:
\* one in each region of detect_conversation_stage for the plan's ceiling.
TimePoints(plan_type) ==
    IF plan_type = "human_only" THEN {0, 30, 1441, 1801} ELSE {0, 30, 481, 601}

\* get_org_config returning None (status other than 200).
NoneConfig == [plan_type |-> None, lead_questions |-> {}]

\* Voices: the organization's voice_id, the platform-wide FALLBACK_VOICE_ID,
\* and what one admission sees of the voice service: the answer to the
\* voice-status query and the fallback_voice_id of the fetched configuration
\* ("" when none is configured).
PrimaryVoice == "v1"
FALLBACK_VOICE_ID == "default-voice"

VoiceAnswers ==
    [status : {200, 404, 503}, voice_status : {"ready", "processing", "failed"},
     fallback_voice_id : {"v2", ""}]

VoiceReady == [status |-> 200, voice_status |-> "ready", fallback_voice_id |-> "v2"]

\* SessionInfo (schemas.py) with its field defaults; start_time is 0.
SessionInfo(plan_type, agent_mode, voice_id, pending) ==
    [plan_type |-> plan_type,
     agent_mode |-> agent_mode,
     voice_id |-> voice_id,
     conversation_stage |-> "greeting",
     human_agent_id |-> None,
     transfer_reason |-> None,
     lead_answers |-> {},
     asked_questions |-> <<>>,
     required_questions_pending |-> pending,
     call_duration |-> 0,
     last_interaction_time |-> 0]

NoSession == SessionInfo(None, None, None, {})

\* The payload of the billing record-call (lines 585-590).
BillingPayload(s) == [duration |-> s.call_duration, agent_mode |-> s.agent_mode]

NoLoop == [queue |-> <<>>, next_question |-> 0, lead_answer |-> FALSE,
           in_ai |-> FALSE, forced |-> FALSE, billing |-> BillingPayload(NoSession)]

\* What the handler of the current inbound event has done so far: the
\* generator's answer (status 200) with its confidence and transfer signal,
\* the synthesis call, the capture, the context append, the reason with
\* which it invoked the transfer pipeline and the agent-transfer call.
NoTurn == [llm |-> FALSE, confidence |-> 0,
           should_transfer |-> FALSE, tts |-> FALSE, captured |-> FALSE,
           appended |-> FALSE, transfer |-> None, agent |-> FALSE,
           failure |-> None]

\* service_request (utils.py 11-38).  One attempt sees a transport failure
\* (error), or an HTTP response with a status and a body that parses as
\* JSON or does not.
StopAfterAttempt == 3    \* utils.py:11
ServiceUnavailable == 503   \* utils.py:38

Services == {"stt", "tts", "llm", "voice", "agent", "knowledge", "leads", "billing"}

AttemptOutcomes ==
    [error : {"timeout", "connection"}, status : {0}, json : {FALSE}]
        \cup [error : {None}, status : {200, 404, 500}, json : BOOLEAN]

NoOutcome == [error |-> None, status |-> 0, json |-> FALSE]

NoRequest == [pc |-> "idle", method |-> "GET", service |-> "stt", attempts |-> 0,
              response |-> NoOutcome, status |-> 0, body |-> None]

\* The process with no session: the manager's two maps (lines 79-80) and
\* the redis keys session:<id> and context:<id>, all empty.
NoProcess == [active_connections |-> {}, session_info |-> <<>>,
              store |-> <<>>, context |-> <<>>]

NoCalls == [billing |-> 0, leads_finalize |-> 0, call_end |-> 0]

Init ==
    /\ orgStore \in OrganizationConfig
    /\ pc = "start"
    /\ session = NoSession
    /\ org_config = NoneConfig
    /\ active_connections = FALSE
    /\ session_info = FALSE
    /\ stored = NoSession
    /\ context = <<>>
    /\ wsOpen = TRUE
    /\ now = 0
    /\ inbound = 0
    /\ loop = NoLoop
    /\ mon = [pc |-> "unbound", queue |-> <<>>]
    /\ hb = "unbound"
    /\ admin = [pc |-> "idle", count |-> 0, result |-> None]
    /\ calls = NoCalls
    /\ emit = {}
    /\ turn = NoTurn
    /\ req = NoRequest
    /\ redis_up = TRUE
    /\ process = NoProcess
    /\ prompts = <<>>

\* ------------------------------------------------------------- helpers
Range(f) == {f[i] : i \in DOMAIN f}

Merge(s, upd) == [f \in DOMAIN s |-> IF f \in DOMAIN upd THEN upd[f] ELSE s[f]]

\* ConnectionManager.store_session: the snapshot replaces the stored one
\* unless setex raises, which is logged and swallowed.
store_session(s) == IF redis_up THEN s ELSE stored

\* ConnectionManager.update_session: the fields are set only while the
\* session id is in manager.session_info.
update_session(s, present, upd) == IF present THEN Merge(s, upd) ELSE s

\* update_session(**upd) on the session object s0, followed by
\* store_session of the new snapshot.
Update(s0, upd) ==
    /\ session' = update_session(s0, session_info, upd)
    /\ stored' = IF session_info THEN store_session(session') ELSE stored

AlwaysStartsWithAI(plan_type) == "ai"

\* ConnectionManager._get_initial_agent_mode
get_initial_agent_mode(plan_type) ==
    IF plan_type = "human_only" THEN "human"
    ELSE IF plan_type = "ai_only" THEN "ai"
    ELSE "ai"

\* sorted(questions, key=lambda q: q.order)
RECURSIVE SortByOrder(_)
SortByOrder(S) ==
    IF S = {} THEN <<>>
    ELSE LET m == CHOOSE x \in S :
                    \A y \in S : LeadQuestion(x).order <= LeadQuestion(y).order
         IN  <<m>> \o SortByOrder(S \ {m})

\* min(questions, key=lambda x: x.order)
MinByOrder(S) == Head(SortByOrder(S))

\* The list `unanswered` of handle_call_end and handle_closing_stage.
Unanswered(cfg, s) ==
    {q \in cfg.lead_questions :
        LeadQuestion(q).required /\ q \in s.required_questions_pending}

LowestEligibleFirst(s, cfg) ==
    LET stage_questions ==
            {q \in cfg.lead_questions :
                /\ LeadQuestion(q).trigger_condition = s.conversation_stage
                /\ q \notin Range(s.asked_questions)}
    IN  IF stage_questions # {} THEN MinByOrder(stage_questions) ELSE 0

\* get_next_lead_question; 0 stands for None.
get_next_lead_question(s, cfg) ==
    LET stage_questions ==
            {q \in cfg.lead_questions :
                /\ LeadQuestion(q).trigger_condition = s.conversation_stage
                /\ q \notin Range(s.asked_questions)}
        required ==
            {q \in stage_questions :
                LeadQuestion(q).required /\ q \in s.required_questions_pending}
    IN  IF required # {} THEN MinByOrder(required)
        ELSE IF stage_questions # {} THEN MinByOrder(stage_questions)
        ELSE 0

CaptureForgetsAsked(s, q) ==
    [lead_answers |-> s.lead_answers \cup {q},
     asked_questions |-> s.asked_questions,
     required_questions_pending |-> s.required_questions_pending \ {q}]

CaptureKeepsPending(s, q) ==
    [lead_answers |-> s.lead_answers \cup {q},
     asked_questions |-> Append(s.asked_questions, q),
     required_questions_pending |-> s.required_questions_pending]

\* The updates capture_lead_answer passes to update_session.
capture_lead_answer(s, q) ==
    [lead_answers |-> s.lead_answers \cup {q},
     asked_questions |-> Append(s.asked_questions, q),
     required_questions_pending |-> s.required_questions_pending \ {q}]

\* send_error: an error event reaches the caller when the socket is writable.
send_error(message) == IF wsOpen THEN {"error: " \o message} ELSE {}

\* ------------------------------------------------ admission and setup
\* websocket_endpoint lines 194-201 with ConnectionManager.connect:
\* verify_jwt_token accepts every token; the connection is registered
\* before the organization and the subscription are checked.
PrimaryWheneverAnswered(v) ==
    IF v.status = 200 THEN PrimaryVoice
    ELSE IF v.fallback_voice_id # "" THEN v.fallback_voice_id
    ELSE FALLBACK_VOICE_ID

\* ConnectionManager.get_effective_voice_id
get_effective_voice_id(v) ==
    IF v.status = 200 /\ v.voice_status = "ready" THEN PrimaryVoice
    ELSE IF v.fallback_voice_id # "" THEN v.fallback_voice_id
    ELSE FALLBACK_VOICE_ID

\* verify_jwt_token (lines 602-605) returns True for every token.
verify_jwt_token(token_valid) == TRUE

Connect(token_valid, found, active, v) ==
    /\ pc = "start"
    /\ IF ~verify_jwt_token(token_valid)
         THEN /\ pc' = "rejected" /\ emit' = {"close 4001"} /\ wsOpen' = FALSE
              /\ UNCHANGED <<session, session_info, stored, active_connections>>
         ELSE IF ~found
         THEN /\ pc' = "rejected" /\ emit' = {"close 4004"} /\ wsOpen' = FALSE
              /\ active_connections' = TRUE
              /\ UNCHANGED <<session, session_info, stored>>
         ELSE IF ~active
         THEN /\ pc' = "rejected" /\ emit' = {"close 4003"} /\ wsOpen' = FALSE
              /\ active_connections' = TRUE
              /\ UNCHANGED <<session, session_info, stored>>
         ELSE /\ active_connections' = TRUE
              /\ session' = SessionInfo(orgStore.plan_type,
                                get_initial_agent_mode(orgStore.plan_type),
                                get_effective_voice_id(v),
                                {q \in orgStore.lead_questions : LeadQuestion(q).required})
              /\ session_info' = TRUE
              /\ stored' = store_session(session')
              /\ pc' = "setup" /\ emit' = {}
              /\ UNCHANGED wsOpen
    /\ UNCHANGED <<process, prompts, redis_up, req, orgStore, org_config, context, now, inbound, loop, mon, hb,
                   admin, calls, turn>>

\* websocket_endpoint lines 203-222: second get_org_config, context
\* initialisation, welcome, creation of the two background tasks.  A
\* failure before the tasks exist is handled by the except clause and
\* leads to the finally block with heartbeat_task unbound.
Setup(found, redis_ok) ==
    /\ pc = "setup"
    /\ org_config' = IF found THEN orgStore ELSE NoneConfig
    /\ LET welcome_ok == IF session.agent_mode = "ai"
                           THEN wsOpen /\ found
                           ELSE TRUE
       IN  IF redis_ok /\ welcome_ok
             THEN /\ context' = <<>>
                  /\ emit' = IF session.agent_mode = "ai" THEN {"welcome"} ELSE {}
                  /\ hb' = "running"
                  /\ mon' = [pc |-> "sleep", queue |-> <<>>]
                  /\ pc' = "recv"
             ELSE /\ context' = context
                  /\ emit' = send_error("Connection error")
                  /\ pc' = "finally"
                  /\ UNCHANGED <<hb, mon>>
    /\ UNCHANGED <<process, prompts, redis_up, req, orgStore, session, active_connections, session_info, stored,
                   wsOpen, now, inbound, loop, admin, calls, turn>>

\* ----------------------------------------------------- transfer pipeline
\* handle_transfer_request up to the agent-transfer call, as run by the
\* message loop: rejection for ai_only, otherwise TRANSFERRING with the
\* reason, then the context read (line 519), which raises while the
\* store is down: inside process_ai_response the exception is reported
\* as an AI failure (lines 447-449), otherwise it leaves the message loop.
\* s0 and st0 are the session object and its snapshot, e0 and t0
\* what the handler has sent and done, on entry.
RejectsTransfer(s) == s.plan_type = "ai_only"

TransferStart(s0, st0, e0, t0, reason, from_ai) ==
    IF RejectsTransfer(s0)
      THEN /\ emit' = e0 \cup send_error("Transfer not available")
           /\ pc' = "recv"
           /\ loop' = NoLoop
           /\ turn' = t0
           /\ session' = s0 /\ stored' = st0
      ELSE /\ Update(s0, [agent_mode |-> "transferring", transfer_reason |-> reason])
           /\ IF redis_up
                THEN /\ turn' = [t0 EXCEPT !.agent = TRUE]
                     /\ emit' = e0
                     /\ pc' = "xfer"
                     /\ loop' = [loop EXCEPT !.in_ai = from_ai]
                ELSE /\ turn' = t0
                     /\ loop' = NoLoop
                     /\ IF from_ai
                          THEN /\ emit' = e0 \cup send_error("AI service unavailable")
                               /\ pc' = "recv"
                          ELSE /\ emit' = e0 \cup send_error("Connection error")
                               /\ pc' = "finally"

\* ------------------------------------------------------ finalize pipeline
\* The decision of handle_call_end between asking the pending required
\* questions and closing (line 566).
AsksAlsoWhenForced(cfg, s, forced) == Unanswered(cfg, s) # {}

AsksInsteadOfClosing(cfg, s, forced) == Unanswered(cfg, s) # {} /\ ~forced

\* An exception that leaves the message loop: the except clause reports it
\* with send_error and the finally block runs; raised inside the finally
\* block it ends the endpoint.
Raise(e0, forced) ==
    /\ pc' = IF forced THEN "done" ELSE "finally"
    /\ emit' = IF forced THEN e0 ELSE e0 \cup send_error("Connection error")

FinalizesLeadsAlways(s) == TRUE

\* The condition of the leads finalize call (line 571).
FinalizesLeads(s) == s.lead_answers # {}

\* The call_end event (lines 595-600) with its lead count.
CallEndEvent(s) == {"call_end", "leads_captured=" \o ToString(Cardinality(s.lead_answers))}

\* handle_call_end up to its first backend call.
handle_call_end(forced) ==
    IF org_config = NoneConfig
      THEN /\ Raise({}, forced)
           /\ loop' = NoLoop
           /\ UNCHANGED calls
      ELSE IF AsksInsteadOfClosing(org_config, session, forced)
      THEN /\ loop' = [NoLoop EXCEPT !.queue = SortByOrder(Unanswered(org_config, session))]
           /\ pc' = "ask"
           /\ emit' = {}
           /\ UNCHANGED calls
      ELSE /\ loop' = [NoLoop EXCEPT !.forced = forced]
           /\ calls' = [calls EXCEPT !.leads_finalize =
                            IF FinalizesLeads(session) THEN @ + 1 ELSE @]
           /\ pc' = "ce_billing"
           /\ emit' = {}

\* ---------------------------------------------------------- message loop
CanReceive == pc = "recv" /\ wsOpen /\ inbound < MaxInbound

DispatchesUnstamped(s) == [last_interaction_time |-> s.last_interaction_time]

\* The update of line 227.  time.time() at the receipt of the k-th inbound
\* event is read as k, the admission as 0.
StampUpdate(s) == [last_interaction_time |-> inbound + 1]

\* The session object and the snapshot when update_session of line 227
\* has returned.
Stamp(s) == update_session(s, session_info, StampUpdate(s))

StampStored(s) == IF session_info THEN store_session(Stamp(s)) ELSE stored

\* receive_json raises WebSocketDisconnect once the peer is gone.
RecvDisconnect ==
    /\ pc = "recv" /\ ~wsOpen
    /\ pc' = "finally"
    /\ emit' = {}
    /\ turn' = NoTurn
    /\ UNCHANGED <<process, prompts, redis_up, req, orgStore, session, org_config, active_connections, session_info,
                   stored, context, wsOpen, now, inbound, loop, mon, hb, admin,
                   calls>>

\* process_ai_response up to the generation call (lines 339-373).  The
\* status of the knowledge search is dropped and the documents are read
\* with a default, so a failed search goes on with no documents.
ProcessAIStart(kb_ok) ==
    IF org_config = NoneConfig
      THEN /\ emit' = send_error("AI service unavailable")
           /\ pc' = "recv"
           /\ loop' = NoLoop
           /\ turn' = NoTurn
      ELSE /\ loop' = [NoLoop EXCEPT !.next_question =
                                         get_next_lead_question(session, org_config),
                                     !.in_ai = TRUE]
           /\ pc' = "ai_llm"
           /\ emit' = {}
           /\ turn' = [NoTurn EXCEPT !.failure = IF kb_ok THEN None ELSE "knowledge"]

\* {"type": "text"}: route_text_message runs the AI-response pipeline.
RecvText ==
    /\ CanReceive
    /\ inbound' = inbound + 1
    /\ Update(session, StampUpdate(session))
    /\ \E kb_ok \in BOOLEAN : ProcessAIStart(kb_ok)
    /\ UNCHANGED <<process, prompts, redis_up, req, orgStore, org_config, active_connections, session_info,
                   context, wsOpen, now, mon, hb, admin, calls>>

\* {"type": "audio"}: validate_audio raises out of the message loop on a
\* payload that is not hex or too long; route_audio_message transcribes
\* and continues as text, a failed transcription is reported as an error.
RecvAudio(valid, stt_ok) ==
    /\ CanReceive
    /\ inbound' = inbound + 1
    /\ IF ~valid
         THEN Raise({}, FALSE) /\ loop' = NoLoop /\ turn' = NoTurn
         ELSE IF ~stt_ok
         THEN /\ emit' = send_error("AI service unavailable")
              /\ pc' = "recv" /\ loop' = NoLoop /\ turn' = NoTurn
         ELSE \E kb_ok \in BOOLEAN : ProcessAIStart(kb_ok)
    /\ Update(session, StampUpdate(session))
    /\ UNCHANGED <<process, prompts, redis_up, req, orgStore, org_config, active_connections, session_info,
                   context, wsOpen, now, mon, hb, admin, calls>>

\* {"type": "transfer_request"}
RecvTransfer ==
    /\ CanReceive
    /\ inbound' = inbound + 1
    /\ TransferStart(Stamp(session), StampStored(session), {}, NoTurn,
                     "user_request", FALSE)
    /\ UNCHANGED <<process, prompts, redis_up, req, orgStore, org_config, active_connections, session_info,
                   context, wsOpen, now, mon, hb, admin, calls>>

\* {"type": "end_call"}
RecvEndCall ==
    /\ CanReceive
    /\ inbound' = inbound + 1
    /\ turn' = NoTurn
    /\ Update(session, StampUpdate(session))
    /\ handle_call_end(FALSE)
    /\ UNCHANGED <<process, prompts, redis_up, req, orgStore, org_config, active_connections, session_info,
                   context, wsOpen, now, mon, hb, admin>>

\* The transfer condition and reason of process_ai_response (lines 384-387).
DivertsOnAnyPlan(plan_type, should_transfer, confidence) ==
    should_transfer \/ confidence < AiConfidenceThreshold

ShouldDivert(plan_type, should_transfer, confidence) ==
    plan_type = "hybrid" /\ (should_transfer \/ confidence < AiConfidenceThreshold)

DivertReason(confidence) ==
    IF confidence < AiConfidenceThreshold THEN "ai_confidence_low" ELSE "complex_query"

\* The generation call returns (lines 375-404): error, transfer, the
\* session update of capture_lead_answer (lines 474-486), or straight on
\* to the synthesis call.
AILLMReturn(status_ok, confidence, should_transfer, has_answer) ==
    /\ pc = "ai_llm"
    /\ IF ~status_ok
         THEN /\ emit' = emit \cup send_error("AI service unavailable")
              /\ pc' = "recv" /\ loop' = NoLoop
              /\ turn' = [turn EXCEPT !.failure = "llm"]
              /\ UNCHANGED <<session, stored>>
         ELSE IF ShouldDivert(session.plan_type, should_transfer, confidence)
         THEN TransferStart(session, stored, emit,
                            [turn EXCEPT !.llm = TRUE, !.confidence = confidence,
                                         !.should_transfer = should_transfer,
                                         !.transfer = DivertReason(confidence)],
                            DivertReason(confidence), TRUE)
         ELSE /\ IF has_answer /\ loop.next_question # 0
                   THEN /\ Update(session,
                                  capture_lead_answer(session, loop.next_question))
                        /\ pc' = "ai_capture"
                   ELSE /\ UNCHANGED <<session, stored>>
                        /\ pc' = "ai_tts"
              /\ turn' = [turn EXCEPT !.llm = TRUE, !.confidence = confidence,
                                      !.should_transfer = should_transfer,
                                      !.captured = has_answer /\ loop.next_question # 0,
                                      !.tts = ~(has_answer /\ loop.next_question # 0)]
              /\ loop' = [loop EXCEPT !.lead_answer = has_answer]
              /\ emit' = emit
    /\ UNCHANGED <<process, prompts, redis_up, req, orgStore, org_config, active_connections, session_info,
                   context, wsOpen, now, inbound, mon, hb, admin, calls>>

\* The capture call to the leads collaborator returns (lines 488-504); its
\* result is dropped and the synthesis call follows.
AICaptureReturn(capture_ok) ==
    /\ pc = "ai_capture"
    /\ turn' = [turn EXCEPT !.tts = TRUE,
                            !.failure = IF ~capture_ok THEN "leads" ELSE @]
    /\ pc' = "ai_tts"
    /\ UNCHANGED <<process, prompts, redis_up, req, orgStore, session, org_config, active_connections,
                   session_info, stored, context, wsOpen, now, inbound, loop, mon,
                   hb, admin, calls, emit>>

\* The synthesis call returns (lines 406-449): the context is extended and
\* stored, then the ai_response event is built and sent; any exception is
\* reported as "AI service unavailable".
AITTSReturn(status_ok) ==
    /\ pc = "ai_tts"
    /\ IF ~status_ok
         THEN /\ emit' = emit \cup send_error("AI service unavailable")
              /\ turn' = [turn EXCEPT !.failure = "tts"]
              /\ UNCHANGED context
         ELSE /\ context' = context \o <<"user", "assistant">>
              /\ turn' = [turn EXCEPT !.appended = TRUE]
              /\ emit' = IF wsOpen /\ ~(loop.lead_answer /\ loop.next_question = 0)
                           THEN emit \cup {"ai_response"}
                           ELSE emit \cup send_error("AI service unavailable")
    /\ pc' = "recv"
    /\ loop' = NoLoop
    /\ UNCHANGED <<process, prompts, redis_up, req, orgStore, session, org_config, active_connections, session_info,
                   stored, wsOpen, now, inbound, mon, hb, admin, calls>>

\* The agent-transfer call returns (lines 539-555).
TransferOutcome(status_ok) == IF status_ok THEN "human" ELSE "ai"

XferReturn(status_ok) ==
    /\ pc = "xfer"
    /\ IF TransferOutcome(status_ok) = "human"
         THEN /\ Update(session, [agent_mode |-> "human", human_agent_id |-> "agent"])
              /\ IF wsOpen
                   THEN emit' = emit \cup {"transfer_complete"} /\ pc' = "recv"
                   ELSE IF loop.in_ai
                   THEN emit' = emit \cup send_error("AI service unavailable") /\ pc' = "recv"
                   ELSE Raise(emit, FALSE)
         ELSE /\ Update(session, [agent_mode |-> TransferOutcome(status_ok)])
              /\ emit' = emit \cup send_error("Transfer failed")
              /\ pc' = "recv"
    /\ loop' = NoLoop
    /\ UNCHANGED <<process, prompts, redis_up, req, orgStore, org_config, active_connections, session_info,
                   context, wsOpen, now, inbound, mon, hb, admin, calls, turn>>

\* ask_lead_question (lines 301-334) for the head of a queue built by
\* ask_pending_questions: synthesis, the lead_question event, then the id
\* is appended to asked_questions; a failure is logged and skips the append.
LeadQuestionEvent(q) == "lead_question " \o ToString(q)

AskingClearsPending(s, q) ==
    [asked_questions |-> Append(s.asked_questions, q),
     required_questions_pending |-> s.required_questions_pending \ {q}]

AskedOverwrites(s, q) == [asked_questions |-> <<q>>]

AskedUpdate(s, q) == [asked_questions |-> Append(s.asked_questions, q)]

AskQuestion(tts_ok) ==
    /\ pc = "ask"
    /\ IF tts_ok /\ wsOpen
         THEN /\ emit' = emit \cup {LeadQuestionEvent(Head(loop.queue))}
              /\ prompts' = Append(prompts, Head(loop.queue))
              /\ Update(session, AskedUpdate(session, Head(loop.queue)))
         ELSE /\ emit' = emit
              /\ UNCHANGED <<session, stored, prompts>>
    /\ loop' = [loop EXCEPT !.queue = Tail(@)]
    /\ pc' = IF Tail(loop.queue) = <<>> THEN "recv" ELSE "ask"
    /\ UNCHANGED <<process, redis_up, req, orgStore, org_config, active_connections, session_info,
                   context, wsOpen, now, inbound, mon, hb, admin, calls, turn>>

\* handle_call_end after the leads call: the billing record-call (line 583).
CallEndBilling ==
    /\ pc = "ce_billing"
    /\ calls' = [calls EXCEPT !.billing = @ + 1]
    /\ loop' = [loop EXCEPT !.billing = BillingPayload(session)]
    /\ pc' = "ce_send"
    /\ UNCHANGED <<process, prompts, redis_up, req, orgStore, session, org_config, active_connections, session_info,
                   stored, context, wsOpen, now, inbound, mon, hb, admin,
                   emit, turn>>

\* handle_call_end's call_end event (line 595); the message loop goes on
\* receiving after a close that was not forced.
CallEndSend ==
    /\ pc = "ce_send"
    /\ calls' = [calls EXCEPT !.call_end = @ + 1]
    /\ IF wsOpen
         THEN /\ emit' = emit \cup CallEndEvent(session)
              /\ pc' = IF loop.forced THEN "done" ELSE "recv"
         ELSE Raise(emit, loop.forced)
    /\ loop' = NoLoop
    /\ UNCHANGED <<process, prompts, redis_up, req, orgStore, session, org_config, active_connections, session_info,
                   stored, context, wsOpen, now, inbound, mon, hb, admin, turn>>

CancelIgnored(task) == task

\* Task.cancel() (lines 245-246): a task waiting in an await gets
\* CancelledError there and runs no further statement of its loop.
cancel(task) == "cancelled"

\* The finally block (lines 244-248): with the tasks never created the
\* first statement raises; otherwise both tasks are cancelled, the session
\* is detached from the manager's maps and handle_call_end runs forced.
Finally ==
    /\ pc = "finally"
    /\ IF hb = "unbound"
         THEN /\ pc' = "done" /\ emit' = {}
              /\ UNCHANGED <<hb, mon, active_connections, session_info, loop, calls>>
         ELSE /\ hb' = cancel(hb)
              /\ mon' = [pc |-> cancel(mon.pc),
                         queue |-> IF cancel(mon.pc) = "cancelled" THEN <<>>
                                   ELSE mon.queue]
              /\ active_connections' = FALSE
              /\ session_info' = FALSE
              /\ handle_call_end(TRUE)
    /\ turn' = NoTurn
    /\ UNCHANGED <<process, prompts, redis_up, req, orgStore, session, org_config, stored, context, wsOpen, now,
                   inbound, admin>>

\* ----------------------------------------------------- session supervisor
\* One iteration of monitor_session (lines 262-280), waking when
\* time.time() - start_time is t, with handle_closing_stage (lines 282-294),
\* which fetches the organization again; the fetch returning None ends the
\* task with an exception.  new_stage is the value the body of
\* detect_conversation_stage computes (the call of line 273 read as
\* awaited); MonitorTickUnawaited below is the iteration as written.
MonitorTick(t, found) ==
    /\ mon.pc = "sleep"
    /\ t >= now
    /\ now' = t
    /\ IF ~session_info
         THEN /\ mon' = [pc |-> "ended", queue |-> <<>>]
              /\ UNCHANGED <<session, stored>>
         ELSE LET duration == t
                  new_stage == detect_conversation_stage(session.plan_type, duration)
                  cfg == IF found THEN orgStore ELSE NoneConfig
              IN  IF new_stage = session.conversation_stage
                    THEN /\ Update(session, [call_duration |-> duration])
                         /\ UNCHANGED mon
                    ELSE /\ Update(session, [call_duration |-> duration,
                                             conversation_stage |-> new_stage])
                         /\ mon' = IF new_stage # "closing" THEN mon
                                   ELSE IF ~found THEN [pc |-> "failed", queue |-> <<>>]
                                   ELSE IF Unanswered(cfg, session) = {} THEN mon
                                   ELSE [pc |-> "ask",
                                         queue |-> SortByOrder(Unanswered(cfg, session))]
    /\ UNCHANGED <<process, prompts, redis_up, req, orgStore, pc, org_config, active_connections, session_info,
                   context, wsOpen, inbound, loop, hb, admin, calls, emit, turn>>

\* ask_lead_question run by the monitor for the head of its queue.
MonitorAsk(tts_ok) ==
    /\ mon.pc = "ask"
    /\ IF tts_ok /\ wsOpen
         THEN /\ prompts' = Append(prompts, Head(mon.queue))
              /\ Update(session, AskedUpdate(session, Head(mon.queue)))
         ELSE UNCHANGED <<session, stored, prompts>>
    /\ mon' = IF Tail(mon.queue) = <<>> THEN [pc |-> "sleep", queue |-> <<>>]
              ELSE [mon EXCEPT !.queue = Tail(@)]
    /\ UNCHANGED <<process, redis_up, req, orgStore, pc, org_config, active_connections, session_info,
                   context, wsOpen, now, inbound, loop, hb, admin, calls, emit, turn>>

HeartbeatFailureEndsLoop ==
    /\ hb = "running"
    /\ hb' = IF wsOpen THEN hb ELSE "stopped"
    /\ pc' = IF wsOpen \/ pc # "recv" THEN pc ELSE "finally"
    /\ UNCHANGED <<process, prompts, redis_up, req, orgStore, session, org_config, active_connections,
                   session_info, stored, context, wsOpen, now, inbound, loop, mon,
                   admin, calls, emit, turn>>

\* One iteration of send_heartbeat (lines 252-257): a failed send ends it.
HeartbeatTick ==
    /\ hb = "running"
    /\ hb' = IF wsOpen THEN hb ELSE "stopped"
    /\ UNCHANGED <<process, prompts, redis_up, req, orgStore, pc, session, org_config, active_connections,
                   session_info, stored, context, wsOpen, now, inbound, loop, mon,
                   admin, calls, emit, turn>>

\* ------------------------------------------------ administrative endpoint
\* force_transfer (lines 665-675) up to the agent-transfer call of
\* handle_transfer_request(None, session, reason).  With websocket None no
\* event reaches the caller: send_error either returns, and the endpoint
\* answers "transfer_initiated", or raises, and it answers 500; so does
\* the context read (line 519) while the store is down.
ForceTransfer(reason, raises) ==
    /\ admin.pc = "idle" /\ admin.count < MaxAdmin
    /\ pc # "start"
    /\ IF ~session_info
         THEN /\ admin' = [admin EXCEPT !.count = @ + 1, !.result = "404"]
              /\ UNCHANGED <<session, stored>>
         ELSE IF session.agent_mode # "ai"
         THEN /\ admin' = [admin EXCEPT !.count = @ + 1, !.result = "400"]
              /\ UNCHANGED <<session, stored>>
         ELSE IF RejectsTransfer(session)
         THEN /\ admin' = [admin EXCEPT !.count = @ + 1,
                                        !.result = IF raises THEN "500"
                                                   ELSE "transfer_initiated"]
              /\ UNCHANGED <<session, stored>>
         ELSE /\ Update(session, [agent_mode |-> "transferring", transfer_reason |-> reason])
              /\ admin' = IF redis_up
                            THEN [admin EXCEPT !.count = @ + 1, !.pc = "xfer",
                                               !.result = None]
                            ELSE [admin EXCEPT !.count = @ + 1, !.result = "500"]
    /\ UNCHANGED <<process, prompts, redis_up, req, orgStore, pc, org_config, active_connections, session_info,
                   context, wsOpen, now, inbound, loop, mon, hb, calls, emit, turn>>

\* The agent-transfer call of the forced transfer returns: with websocket
\* None the transfer_complete send raises after the mode is set.
ForceTransferReturn(status_ok, raises) ==
    /\ admin.pc = "xfer"
    /\ IF TransferOutcome(status_ok) = "human"
         THEN /\ Update(session, [agent_mode |-> "human", human_agent_id |-> "agent"])
              /\ admin' = [admin EXCEPT !.pc = "idle", !.result = "500"]
         ELSE /\ Update(session, [agent_mode |-> TransferOutcome(status_ok)])
              /\ admin' = [admin EXCEPT !.pc = "idle",
                                        !.result = IF raises THEN "500"
                                                   ELSE "transfer_initiated"]
    /\ UNCHANGED <<process, prompts, redis_up, req, orgStore, pc, org_config, active_connections, session_info,
                   context, wsOpen, now, inbound, loop, mon, hb, calls, emit, turn>>

\* ------------------------------------------------------------ environment
Alive == pc \notin {"start", "rejected", "done"}

PeerDisconnect ==
    /\ Alive /\ wsOpen
    /\ wsOpen' = FALSE
    /\ UNCHANGED <<process, prompts, redis_up, req, orgStore, pc, session, org_config, active_connections,
                   session_info, stored, context, now, inbound, loop, mon, hb,
                   admin, calls, emit, turn>>

\* The endpoint coroutine and its peer.
Endpoint ==
    \/ \E token_valid, found, active \in BOOLEAN :
           Connect(token_valid, found, active, VoiceReady)
    \/ \E found, redis_ok \in BOOLEAN : Setup(found, redis_ok)
    \/ RecvDisconnect
    \/ RecvText
    \/ \E valid, stt_ok \in BOOLEAN : RecvAudio(valid, stt_ok)
    \/ RecvTransfer
    \/ RecvEndCall
    \/ \E status_ok, should_transfer, has_answer \in BOOLEAN,
          confidence \in Confidences :
           AILLMReturn(status_ok, confidence, should_transfer, has_answer)
    \/ \E capture_ok \in BOOLEAN : AICaptureReturn(capture_ok)
    \/ \E status_ok \in BOOLEAN : AITTSReturn(status_ok)
    \/ \E status_ok \in BOOLEAN : XferReturn(status_ok)
    \/ \E tts_ok \in BOOLEAN : AskQuestion(tts_ok)
    \/ CallEndBilling
    \/ CallEndSend
    \/ Finally
    \/ PeerDisconnect

\* The session with its stage monitor.
Next ==
    \/ Endpoint
    \/ \E t \in TimePoints(orgStore.plan_type), found \in BOOLEAN : MonitorTick(t, found)
    \/ \E tts_ok \in BOOLEAN : MonitorAsk(tts_ok)

Spec == Init /\ [][Next]_vars

\* The session with the administrative forced-transfer endpoint.  The
\* monitor and the clock neither read nor write agent_mode and are left out.
NextTransfer ==
    \/ Endpoint
    \/ \E raises \in BOOLEAN : ForceTransfer("escalation", raises)
    \/ \E status_ok, raises \in BOOLEAN : ForceTransferReturn(status_ok, raises)

SpecTransfer == Init /\ [][NextTransfer]_vars

\* The stage monitor of an admitted session read second by second: the
\* state after Connect and Setup succeeded, then monitor iterations at
\* most MaxDt seconds apart up to MaxDuration.
InitStage ==
    /\ orgStore \in OrganizationConfig
    /\ pc = "recv"
    /\ session = SessionInfo(orgStore.plan_type,
                             get_initial_agent_mode(orgStore.plan_type),
                             PrimaryVoice,
                             {q \in orgStore.lead_questions : LeadQuestion(q).required})
    /\ org_config = orgStore
    /\ active_connections = TRUE
    /\ session_info = TRUE
    /\ stored = session
    /\ context = <<>>
    /\ wsOpen = TRUE
    /\ now = 0
    /\ inbound = 0
    /\ loop = NoLoop
    /\ mon = [pc |-> "sleep", queue |-> <<>>]
    /\ hb = "running"
    /\ admin = [pc |-> "idle", count |-> 0, result |-> None]
    /\ calls = NoCalls
    /\ emit = IF session.agent_mode = "ai" THEN {"welcome"} ELSE {}
    /\ turn = NoTurn
    /\ req = NoRequest
    /\ redis_up = TRUE
    /\ process = NoProcess
    /\ prompts = <<>>

NextStage ==
    \/ \E dt \in 1..MaxDt :
           now + dt <= MaxDuration /\ MonitorTick(now + dt, TRUE)
    \/ \E tts_ok \in BOOLEAN : MonitorAsk(tts_ok)

SpecStage == InitStage /\ [][NextStage]_vars

\* get_next_lead_question read as a function: a session in the message
\* loop with any configuration over the first NumSelect questions, any
\* stage, any asked list and any pending set, receiving a text event.
InitSelect ==
    /\ orgStore \in [plan_type : PlanType, lead_questions : SUBSET (1..NumSelect)]
    /\ validate_lead_questions(orgStore.lead_questions)
    /\ pc = "recv"
    /\ \E stage \in ConversationStage, asked \in SUBSET orgStore.lead_questions,
          pending \in SUBSET {q \in orgStore.lead_questions : LeadQuestion(q).required} :
           session = [SessionInfo(orgStore.plan_type,
                                  get_initial_agent_mode(orgStore.plan_type),
                                  PrimaryVoice, pending)
                          EXCEPT !.conversation_stage = stage,
                                 !.asked_questions = SortByOrder(asked)]
    /\ org_config = orgStore
    /\ active_connections = TRUE
    /\ session_info = TRUE
    /\ stored = session
    /\ context = <<>>
    /\ wsOpen = TRUE
    /\ now = 0
    /\ inbound = 0
    /\ loop = NoLoop
    /\ mon = [pc |-> "sleep", queue |-> <<>>]
    /\ hb = "running"
    /\ admin = [pc |-> "idle", count |-> 0, result |-> None]
    /\ calls = NoCalls
    /\ emit = {}
    /\ turn = NoTurn
    /\ req = NoRequest
    /\ redis_up = TRUE
    /\ process = NoProcess
    /\ prompts = <<>>

NextSelect == RecvText

SpecSelect == InitSelect /\ [][NextSelect]_vars

\* Admission read for the session it creates: any configuration over the
\* first NumSelect questions and any answer of the voice service, then the
\* life of a session that receives no event.
InitVoice ==
    /\ orgStore \in [plan_type : PlanType, lead_questions : SUBSET (1..NumSelect)]
    /\ validate_lead_questions(orgStore.lead_questions)
    /\ pc = "start"
    /\ session = NoSession
    /\ org_config = NoneConfig
    /\ active_connections = FALSE
    /\ session_info = FALSE
    /\ stored = NoSession
    /\ context = <<>>
    /\ wsOpen = TRUE
    /\ now = 0
    /\ inbound = 0
    /\ loop = NoLoop
    /\ mon = [pc |-> "unbound", queue |-> <<>>]
    /\ hb = "unbound"
    /\ admin = [pc |-> "idle", count |-> 0, result |-> None]
    /\ calls = NoCalls
    /\ emit = {}
    /\ turn = NoTurn
    /\ req = NoRequest
    /\ redis_up = TRUE
    /\ process = NoProcess
    /\ prompts = <<>>

NextVoice ==
    \/ \E token_valid, found, active \in BOOLEAN, v \in VoiceAnswers :
           Connect(token_valid, found, active, v)
    \/ \E found, redis_ok \in BOOLEAN : Setup(found, redis_ok)
    \/ PeerDisconnect
    \/ RecvDisconnect
    \/ Finally
    \/ CallEndBilling
    \/ CallEndSend

SpecVoice == InitVoice /\ [][NextVoice]_vars

\* ---------------------------------------------------------- backend client
RaisesOnErrorStatus(o) ==
    IF o.error # None \/ ~o.json
      THEN [raised |-> FALSE, status |-> ServiceUnavailable,
            body |-> "error: Service unavailable"]
      ELSE IF o.status >= 400
      THEN [raised |-> TRUE, status |-> 0, body |-> None]
      ELSE [raised |-> FALSE, status |-> o.status, body |-> "json"]

PropagatesTransportError(o) ==
    IF o.error # None \/ ~o.json
      THEN [raised |-> TRUE, status |-> 0, body |-> None]
      ELSE [raised |-> FALSE, status |-> o.status, body |-> "json"]

\* The body of service_request for one attempt (lines 29-38): the response
\* status with the parsed JSON body; every exception of the request or of
\* response.json() is caught and turned into the 503 result.
service_request(o) ==
    IF o.error # None \/ ~o.json
      THEN [raised |-> FALSE, status |-> ServiceUnavailable,
            body |-> "error: Service unavailable"]
      ELSE [raised |-> FALSE, status |-> o.status, body |-> "json"]

\* A caller awaits service_request(method, service, ...).
RequestCall(method, service) ==
    /\ req.pc \in {"idle", "returned", "raised"}
    /\ req' = [NoRequest EXCEPT !.pc = "attempt", !.method = method,
                                !.service = service]
    /\ UNCHANGED <<process, prompts, redis_up, orgStore, pc, session, org_config, active_connections,
                   session_info, stored, context, wsOpen, now, inbound, loop, mon,
                   hb, admin, calls, emit, turn>>

\* One attempt under the tenacity decorator (line 11): a result is returned
\* to the caller, an exception is retried until stop_after_attempt(3) and
\* then raised to the caller.
RequestAttempt(o) ==
    /\ req.pc = "attempt"
    /\ LET r == service_request(o)
       IN  req' = [req EXCEPT
                      !.attempts = @ + 1,
                      !.response = o,
                      !.status = r.status,
                      !.body = r.body,
                      !.pc = IF ~r.raised THEN "returned"
                             ELSE IF req.attempts + 1 < StopAfterAttempt THEN "attempt"
                             ELSE "raised"]
    /\ UNCHANGED <<process, prompts, redis_up, orgStore, pc, session, org_config, active_connections,
                   session_info, stored, context, wsOpen, now, inbound, loop, mon,
                   hb, admin, calls, emit, turn>>

NextRequest ==
    \/ \E method \in {"GET", "POST"}, service \in Services : RequestCall(method, service)
    \/ \E o \in AttemptOutcomes : RequestAttempt(o)

SpecRequest == Init /\ [][NextRequest]_vars

\* The session with its stage monitor and its heartbeat, for the events
\* whose handlers are the repository's own (transfer_request, end_call).
NextTeardown ==
    \/ \E found, active \in BOOLEAN : Connect(TRUE, found, active, VoiceReady)
    \/ \E found, redis_ok \in BOOLEAN : Setup(found, redis_ok)
    \/ RecvTransfer
    \/ \E status_ok \in BOOLEAN : XferReturn(status_ok)
    \/ RecvEndCall
    \/ \E tts_ok \in BOOLEAN : AskQuestion(tts_ok)
    \/ CallEndBilling
    \/ CallEndSend
    \/ RecvDisconnect
    \/ PeerDisconnect
    \/ Finally
    \/ \E t \in TimePoints(orgStore.plan_type), found \in BOOLEAN : MonitorTick(t, found)
    \/ \E tts_ok \in BOOLEAN : MonitorAsk(tts_ok)
    \/ HeartbeatTick

SpecTeardown == Init /\ [][NextTeardown]_vars

\* monitor_session as line 273 is written: detect_conversation_stage is a
\* coroutine function (utils.py 47) and is called without await, so
\* new_stage is a coroutine object.  It differs from every stage, it is
\* set as the session's conversation_stage on every iteration, the snapshot
\* of a session holding it does not serialise (store_session logs the
\* exception), and it never equals CLOSING.
Coroutine == "coroutine"

MonitorTickUnawaited(t) ==
    /\ mon.pc = "sleep"
    /\ session_info
    /\ t >= now
    /\ now' = t
    /\ LET duration == t
           new_stage == Coroutine
           s1 == update_session(session, session_info, [call_duration |-> duration])
           st1 == IF session.conversation_stage = Coroutine THEN stored
                  ELSE store_session(s1)
       IN  IF new_stage # s1.conversation_stage \/ new_stage = Coroutine
             THEN /\ session' = update_session(s1, session_info,
                                               [conversation_stage |-> new_stage])
                  /\ stored' = st1
                  /\ mon' = IF new_stage = "closing"
                              THEN [pc |-> "ask",
                                    queue |-> SortByOrder(Unanswered(orgStore, session))]
                              ELSE mon
             ELSE /\ session' = s1 /\ stored' = st1 /\ UNCHANGED mon
    /\ UNCHANGED <<process, prompts, redis_up, req, orgStore, pc, org_config, active_connections, session_info,
                   context, wsOpen, inbound, loop, hb, admin, calls, emit, turn>>

\* Admission, setup and the monitor of the admitted session.
NextMonitor ==
    \/ \E found, active \in BOOLEAN : Connect(TRUE, found, active, VoiceReady)
    \/ \E found, redis_ok \in BOOLEAN : Setup(found, redis_ok)
    \/ \E t \in TimePoints(orgStore.plan_type) : MonitorTickUnawaited(t)

SpecMonitor == Init /\ [][NextMonitor]_vars

\* The organization's lead questions are changed at the voice service,
\* whose answer get_org_config (lines 166-184) returns on each call.
OrgConfigChange ==
    /\ orgStore' \in {c \in OrganizationConfig : c.plan_type = orgStore.plan_type}
                         \ {orgStore}
    /\ UNCHANGED <<process, prompts, redis_up, req, pc, session, org_config, active_connections,
                   session_info, stored, context, wsOpen, now, inbound, loop, mon,
                   hb, admin, calls, emit, turn>>

\* The readers of the configuration (admission, the endpoint's second
\* fetch, the finalize pipeline, the monitor's closing check) next to a
\* configuration that changes.
NextConfig ==
    \/ \E found, active \in BOOLEAN : Connect(TRUE, found, active, VoiceReady)
    \/ \E found \in BOOLEAN : Setup(found, TRUE)
    \/ RecvEndCall
    \/ \E tts_ok \in BOOLEAN : AskQuestion(tts_ok)
    \/ CallEndBilling
    \/ CallEndSend
    \/ RecvDisconnect
    \/ PeerDisconnect
    \/ Finally
    \/ \E t \in TimePoints(orgStore.plan_type), found \in BOOLEAN : MonitorTick(t, found)
    \/ \E tts_ok \in BOOLEAN : MonitorAsk(tts_ok)
    \/ OrgConfigChange

SpecConfig == Init /\ [][NextConfig]_vars

\* The store stops or resumes accepting writes: redis_pool.setex inside
\* store_session (line 151) raises while it is down.
RedisAvailability ==
    /\ redis_up' = ~redis_up
    /\ UNCHANGED <<process, prompts, req, orgStore, pc, session, org_config, active_connections,
                   session_info, stored, context, wsOpen, now, inbound, loop, mon,
                   hb, admin, calls, emit, turn>>

\* The writers of session state next to such a store: admission, the
\* message loop asking the pending questions on end_call, and the monitor.
NextStore ==
    \/ \E found, active \in BOOLEAN : Connect(TRUE, found, active, VoiceReady)
    \/ \E found \in BOOLEAN : Setup(found, redis_up)
    \/ RecvEndCall
    \/ \E tts_ok \in BOOLEAN : AskQuestion(tts_ok)
    \/ CallEndBilling
    \/ CallEndSend
    \/ RecvDisconnect
    \/ PeerDisconnect
    \/ Finally
    \/ \E t \in TimePoints(orgStore.plan_type), found \in BOOLEAN : MonitorTick(t, found)
    \/ \E tts_ok \in BOOLEAN : MonitorAsk(tts_ok)
    \/ RedisAvailability

SpecStore == Init /\ [][NextStore]_vars

\* The transfer pipeline next to a store that may be down: admission, a
\* transfer request of the caller, the answer of the agent service, and
\* the end of the session.
NextOutage ==
    \/ \E found, active \in BOOLEAN : Connect(TRUE, found, active, VoiceReady)
    \/ \E found \in BOOLEAN : Setup(found, redis_up)
    \/ RecvTransfer
    \/ \E status_ok \in BOOLEAN : XferReturn(status_ok)
    \/ CallEndBilling
    \/ CallEndSend
    \/ RecvDisconnect
    \/ PeerDisconnect
    \/ Finally
    \/ RedisAvailability

SpecOutage == Init /\ [][NextOutage]_vars

\* A caller who answers: admission and setup succeed, the caller sends
\* end_call and text events, every backend call succeeds and the generation
\* service finds an answer in every text; each step that can be taken is
\* taken eventually.
NextAnswer ==
    \/ Connect(TRUE, TRUE, TRUE, VoiceReady)
    \/ Setup(TRUE, TRUE)
    \/ RecvEndCall
    \/ AskQuestion(TRUE)
    \/ CallEndBilling
    \/ CallEndSend
    \/ RecvText
    \/ AILLMReturn(TRUE, AiConfidenceThreshold, FALSE, TRUE)
    \/ AICaptureReturn(TRUE)
    \/ AITTSReturn(TRUE)

SpecAnswer == Init /\ [][NextAnswer]_vars /\ WF_vars(NextAnswer)

\* ----------------------------------------------- sessions of one process
\* The module-level manager (line 185) serves every connection of the
\* process.  Session ids are uuid4 values (line 198), never used twice;
\* the redis keys session:<id> and context:<id> carry the same id.
SessionIds == 1..NumSessions

\* The organization all these sessions belong to.
SharedOrg == [plan_type |-> "hybrid", lead_questions |-> {1}]

SetEveryItem(map, sid, v) == [k \in DOMAIN map \cup {sid} |-> v]

\* map[sid] = v on a dict
SetItem(map, sid, v) ==
    [k \in DOMAIN map \cup {sid} |-> IF k = sid THEN v ELSE map[k]]

\* the removal of the key sid from a dict
DelItem(map, sid) == [k \in DOMAIN map \ {sid} |-> map[k]]

\* ConnectionManager.connect for the new id sid: the connection is
\* registered first; an admitted session is created and stored.
SessionConnect(sid, admitted) ==
    /\ sid \notin process.active_connections
    /\ sid \notin DOMAIN process.store
    /\ LET s == SessionInfo(orgStore.plan_type,
                            get_initial_agent_mode(orgStore.plan_type),
                            PrimaryVoice,
                            {q \in orgStore.lead_questions : LeadQuestion(q).required})
       IN  process' =
             IF admitted
               THEN [process EXCEPT
                       !.active_connections = @ \cup {sid},
                       !.session_info = SetItem(@, sid, s),
                       !.store = SetItem(@, sid, s)]
               ELSE [process EXCEPT !.active_connections = @ \cup {sid}]
    /\ UNCHANGED <<prompts, redis_up, req, orgStore, pc, session, org_config,
                   active_connections, session_info, stored, context, wsOpen,
                   now, inbound, loop, mon, hb, admin, calls, emit, turn>>

\* websocket_endpoint lines 208-212: the empty context of the session.
SessionSetup(sid) ==
    /\ sid \in DOMAIN process.session_info
    /\ sid \notin DOMAIN process.context
    /\ process' = [process EXCEPT !.context = SetItem(@, sid, <<>>)]
    /\ UNCHANGED <<prompts, redis_up, req, orgStore, pc, session, org_config,
                   active_connections, session_info, stored, context, wsOpen,
                   now, inbound, loop, mon, hb, admin, calls, emit, turn>>

\* ConnectionManager.update_session(sid, **upd) as the handlers of session
\* sid call it: the transfer pipeline's mode changes (lines 512, 541, 551),
\* the lead capture (lines 480-486) and the closing stage of the monitor
\* (line 275).
SessionUpdates(s) ==
    (IF s.agent_mode = "ai"
       THEN {[agent_mode |-> "transferring", transfer_reason |-> "user_request"]}
       ELSE {})
    \cup (IF s.agent_mode = "transferring"
            THEN {[agent_mode |-> "human", human_agent_id |-> "agent"],
                  [agent_mode |-> "ai"]}
            ELSE {})
    \cup (IF get_next_lead_question(s, orgStore) # 0
            THEN {capture_lead_answer(s, get_next_lead_question(s, orgStore))}
            ELSE {})

SessionUpdate(sid) ==
    /\ sid \in DOMAIN process.session_info
    /\ sid \in DOMAIN process.context
    /\ \E upd \in SessionUpdates(process.session_info[sid]) :
         LET s == Merge(process.session_info[sid], upd)
         IN  process' = [process EXCEPT
                           !.session_info = SetItem(@, sid, s),
                           !.store = SetItem(@, sid, s)]
    /\ UNCHANGED <<prompts, redis_up, req, orgStore, pc, session, org_config,
                   active_connections, session_info, stored, context, wsOpen,
                   now, inbound, loop, mon, hb, admin, calls, emit, turn>>

\* process_ai_response lines 409-418: the turn is appended to the context
\* read from context:<sid> and the list is written back under the same key.
SessionContext(sid) ==
    /\ sid \in DOMAIN process.session_info
    /\ sid \in DOMAIN process.context
    /\ Len(process.context[sid]) < MaxInbound
    /\ process' = [process EXCEPT
                     !.context = SetItem(@, sid,
                                    Append(@[sid], Len(@[sid]) + 1))]
    /\ UNCHANGED <<prompts, redis_up, req, orgStore, pc, session, org_config,
                   active_connections, session_info, stored, context, wsOpen,
                   now, inbound, loop, mon, hb, admin, calls, emit, turn>>

\* manager.disconnect(sid) of the finally block (line 247): the session
\* leaves both maps; the redis keys stay until they expire.
SessionDisconnect(sid) ==
    /\ sid \in DOMAIN process.session_info
    /\ sid \in DOMAIN process.context
    /\ process' = [process EXCEPT
                     !.active_connections = @ \ {sid},
                     !.session_info = DelItem(@, sid)]
    /\ UNCHANGED <<prompts, redis_up, req, orgStore, pc, session, org_config,
                   active_connections, session_info, stored, context, wsOpen,
                   now, inbound, loop, mon, hb, admin, calls, emit, turn>>

\* health_check (lines 608-625): the active-session count it reports.
health_check == [active_sessions |-> Cardinality(process.active_connections)]

InitManager ==
    /\ orgStore = SharedOrg
    /\ pc = "start"
    /\ session = NoSession
    /\ org_config = NoneConfig
    /\ active_connections = FALSE
    /\ session_info = FALSE
    /\ stored = NoSession
    /\ context = <<>>
    /\ wsOpen = TRUE
    /\ now = 0
    /\ inbound = 0
    /\ loop = NoLoop
    /\ mon = [pc |-> "unbound", queue |-> <<>>]
    /\ hb = "unbound"
    /\ admin = [pc |-> "idle", count |-> 0, result |-> None]
    /\ calls = NoCalls
    /\ emit = {}
    /\ turn = NoTurn
    /\ req = NoRequest
    /\ redis_up = TRUE
    /\ process = NoProcess
    /\ prompts = <<>>

NextManager ==
    \/ \E sid \in SessionIds, admitted \in BOOLEAN : SessionConnect(sid, admitted)
    \/ \E sid \in SessionIds : SessionSetup(sid)
    \/ \E sid \in SessionIds : SessionUpdate(sid)
    \/ \E sid \in SessionIds : SessionContext(sid)
    \/ \E sid \in SessionIds : SessionDisconnect(sid)

SpecManager == InitManager /\ [][NextManager]_vars

\* ------------------------------------------- configuration validation
\* OrganizationConfig.validate_lead_questions (schemas.py lines 54-59) on a
\* list of LeadQuestion objects, each with its own trigger_condition and
\* order: the ValueError is raised when some question is triggered at the
\* greeting stage and no question of the list has order 1.
validate_lead_question_list(v) ==
    IF \E i \in DOMAIN v : v[i].trigger_condition = "greeting"
      THEN (\E i \in DOMAIN v : v[i].order = 1)
      ELSE TRUE

\* The lead-question lists a fetched configuration may carry: up to
\* NumQuestions questions, any stage and any order in 1..NumQuestions each.
QuestionLists ==
    UNION {[1..n -> [trigger_condition : ConversationStage,
                     order : 1..NumQuestions]] : n \in 0..NumQuestions}

\* OrganizationConfig(**response) in get_org_config (lines 173-183): the
\* validator's ValueError is caught and None is returned, which connect
\* treats as an unknown organization.
ConstructConfig ==
    /\ pc = "start"
    /\ IF validate_lead_question_list(orgStore.lead_questions)
         THEN org_config' = orgStore /\ pc' = "config_accepted"
         ELSE org_config' = NoneConfig /\ pc' = "config_rejected"
    /\ UNCHANGED <<process, prompts, redis_up, req, orgStore, session,
                   active_connections, session_info, stored, context, wsOpen,
                   now, inbound, loop, mon, hb, admin, calls, emit, turn>>

InitValidate ==
    /\ orgStore \in [plan_type : {"hybrid"}, lead_questions : QuestionLists]
    /\ pc = "start"
    /\ session = NoSession
    /\ org_config = NoneConfig
    /\ active_connections = FALSE
    /\ session_info = FALSE
    /\ stored = NoSession
    /\ context = <<>>
    /\ wsOpen = TRUE
    /\ now = 0
    /\ inbound = 0
    /\ loop = NoLoop
    /\ mon = [pc |-> "unbound", queue |-> <<>>]
    /\ hb = "unbound"
    /\ admin = [pc |-> "idle", count |-> 0, result |-> None]
    /\ calls = NoCalls
    /\ emit = {}
    /\ turn = NoTurn
    /\ req = NoRequest
    /\ redis_up = TRUE
    /\ process = NoProcess
    /\ prompts = <<>>

NextValidate == ConstructConfig

SpecValidate == InitValidate /\ [][NextValidate]_vars

\* ------------------------------------------------------------------ claims
\* C1: the billing record-call and the leads finalize call are each sent
\* at most once per session, also when end-of-call handling runs twice
\* (an end_call that closes, then another end_call or the teardown).
C1_CloseSentAtMostOnce ==
    calls.billing <= 1 /\ calls.leads_finalize <= 1

\* C2: whatever ends the connection of an admitted session, including an
\* error in the pre-loop setup, the teardown has attempted the billing
\* record-call by the time the endpoint is done.
C2_TeardownAlwaysBills ==
    pc = "done" => calls.billing >= 1

\* C3: handle_call_end closes (billing record-call, then the call_end send)
\* if and only if termination is forced or no required question is pending;
\* otherwise it only asks the pending required questions, in order, and
\* returns with no billing call, no leads finalize call and no call_end.
C3_EntersCallEnd ==
    /\ pc \in {"recv", "finally"}
    /\ pc' \in {"ask", "ce_billing"}

C4_ModeTransitions ==
    {<<"ai", "transferring">>, <<"transferring", "human">>, <<"transferring", "ai">>}

C4_OnlyListedModeChanges ==
    [][ (session.agent_mode # None /\ session'.agent_mode # session.agent_mode)
            => <<session.agent_mode, session'.agent_mode>> \in C4_ModeTransitions
      ]_vars

\* C5: for a session of an ai_only organization every transfer attempt
\* (inbound transfer_request, AI-pipeline decision, forced-transfer
\* endpoint) leaves the whole session record unchanged with mode AI (after
\* the time stamp the message loop sets on receiving the event), makes no
\* agent-transfer call and yields the rejection error event.
C5_Rejection == "error: Transfer not available"

C5_AiOnlyTransferRejected ==
    [][ /\ (session.plan_type = "ai_only" /\ RecvTransfer) =>
               /\ session' = [session EXCEPT !.last_interaction_time = inbound']
               /\ session'.agent_mode = "ai"
               /\ ~turn'.agent /\ pc' # "xfer"
               /\ C5_Rejection \in emit'
        /\ (session.plan_type = "ai_only" /\ session_info /\ admin'.count # admin.count) =>
               /\ session' = session /\ session'.agent_mode = "ai"
               /\ admin'.pc # "xfer"
               /\ C5_Rejection \in emit' /\ emit' # emit
        /\ (session.plan_type = "ai_only" /\ pc = "ai_llm") => pc' # "xfer"
      ]_vars

\* C6: for a plan other than ai_only the outcome of the transfer pipeline
\* is decided by the agent-transfer status alone: 200 leaves mode HUMAN with
\* the agent id recorded and transfer_complete emitted, any other status
\* leaves mode AI with the transfer-failed error emitted (events as far as
\* the caller's socket is still open), and the message loop keeps receiving.
C6_OutcomeOf(status_ok) ==
    IF status_ok
      THEN /\ session'.agent_mode = "human"
           /\ session'.human_agent_id = "agent"
           /\ wsOpen => "transfer_complete" \in emit' /\ emit' # emit
      ELSE /\ session'.agent_mode = "ai"
           /\ wsOpen => "error: Transfer failed" \in emit' /\ emit' # emit

C6_TransferOutcomeByStatus ==
    [][ \A status_ok \in BOOLEAN :
          /\ XferReturn(status_ok) =>
                 /\ C6_OutcomeOf(status_ok)
                 /\ wsOpen => pc' = "recv"
          /\ (session_info /\ \E raises \in BOOLEAN :
                                 ForceTransferReturn(status_ok, raises)) =>
                 /\ C6_OutcomeOf(status_ok)
                 /\ pc' = pc
      ]_vars

\* C7: in the AI-response pipeline a hybrid session whose generator signals
\* a transfer or returns a confidence below the threshold invokes the
\* transfer pipeline (ai_confidence_low below the threshold, complex_query
\* on the signal alone) and that turn makes no synthesis call, captures no
\* lead answer, appends nothing to the context and emits no ai_response;
\* ai_only and human_only sessions never invoke it from the pipeline.
C7_TurnOutcome ==
    turn.llm =>
        IF session.plan_type = "hybrid"
           /\ (turn.should_transfer \/ turn.confidence < AiConfidenceThreshold)
          THEN /\ turn.transfer =
                      (IF turn.confidence < AiConfidenceThreshold
                         THEN "ai_confidence_low" ELSE "complex_query")
               /\ turn.agent
               /\ ~turn.tts /\ ~turn.captured /\ ~turn.appended
               /\ "ai_response" \notin emit
               /\ session.transfer_reason = turn.transfer
          ELSE turn.transfer = None /\ ~turn.agent

C7_AiPipelineTransfer ==
    /\ []C7_TurnOutcome
    /\ [][ (pc = "ai_llm" /\ pc' = "xfer") =>
               /\ context' = context
               /\ session'.lead_answers = session.lead_answers
               /\ session'.agent_mode = "transferring" ]_vars

\* C7 witness: a hybrid turn transferred on the explicit signal alone has
\* completed, and so has one transferred on low confidence.
C7_TransferredOnSignal ==
    /\ pc = "recv" /\ turn.llm /\ session.plan_type = "hybrid"
    /\ turn.should_transfer /\ turn.confidence >= AiConfidenceThreshold
    /\ turn.transfer = "complex_query"

\* C8: with ceiling 1800 for human_only and 600 otherwise,
\* detect_conversation_stage returns GREETING for d < 30, ENDED for
\* d > ceiling, CLOSING for 0.8*ceiling < d <= ceiling and MIDDLE otherwise,
\* so a session lasting longer than its ceiling reaches stage ENDED.
C8_ClaimedStage(plan_type, d) ==
    LET ceiling == IF plan_type = "human_only" THEN HumanMaxDuration
                   ELSE DefaultMaxDuration
    IN  IF d < GreetingLimit THEN "greeting"
        ELSE IF d > ceiling THEN "ended"
        ELSE IF 5 * d > 4 * ceiling THEN "closing"
        ELSE "middle"

C8_StageMatchesThresholds ==
    /\ detect_conversation_stage(session.plan_type, now) =
           C8_ClaimedStage(session.plan_type, now)
    /\ session.conversation_stage =
           C8_ClaimedStage(session.plan_type, session.call_duration)

C10_AskedAnsweredDisjoint ==
    Range(session.asked_questions) \cap session.lead_answers = {}

\* C10 as the code has it: no question id is both pending and answered,
\* and every answered id is in asked_questions.
C10_PendingAnsweredDisjoint ==
    /\ session.required_questions_pending \cap session.lead_answers = {}
    /\ session.lead_answers \subseteq Range(session.asked_questions)

\* C10 witness: the answer to a required question has been captured.
C10_RequiredAnswered ==
    \E q \in session.lead_answers :
        LeadQuestion(q).required /\ q \in Range(session.asked_questions)

\* C11: required_questions_pending is always a subset of the ids of the
\* organization's required questions minus the keys of lead_answers, and an
\* id leaves it exactly in the step that records its answer, never by
\* asking, a stage change, a transfer or finalize.
C11_RequiredIds == {q \in orgStore.lead_questions : LeadQuestion(q).required}

C11_PendingTracksAnswers ==
    /\ [](session.required_questions_pending \subseteq
              C11_RequiredIds \ session.lead_answers)
    /\ [][ pc # "start" =>
             /\ session'.required_questions_pending \subseteq
                    session.required_questions_pending
             /\ session.required_questions_pending \
                    session'.required_questions_pending =
                        (session'.lead_answers \ session.lead_answers) \cap
                            session.required_questions_pending
         ]_vars

\* C11 witness: one required question was asked and is still pending while
\* the answer to another has been recorded and took it out of pending.
C11_AskedStillPending ==
    /\ \E q \in Range(session.asked_questions) :
           q \in session.required_questions_pending
    /\ \E q \in C11_RequiredIds :
           q \in session.lead_answers /\ q \notin session.required_questions_pending

\* C12: get_next_lead_question is a function of (stage, asked, pending,
\* questions): with eligible = the questions triggered at the current stage
\* and not in asked_questions, it returns the lowest-order eligible question
\* that is required and pending if there is one, else the lowest-order
\* eligible question, else none; never an asked question or one of another
\* stage.
C12_Eligible ==
    {q \in org_config.lead_questions :
        /\ LeadQuestion(q).trigger_condition = session.conversation_stage
        /\ \A i \in DOMAIN session.asked_questions : session.asked_questions[i] # q}

C12_Lowest(S, r) ==
    r \in S /\ \A y \in S : LeadQuestion(r).order <= LeadQuestion(y).order

C12_IsSelection(r) ==
    LET preferred == {q \in C12_Eligible :
                         LeadQuestion(q).required
                         /\ q \in session.required_questions_pending}
    IN  IF preferred # {} THEN C12_Lowest(preferred, r)
        ELSE IF C12_Eligible # {} THEN C12_Lowest(C12_Eligible, r)
        ELSE r = 0

C13_Unavailable == "error: AI service unavailable"

C13_FailureSurfacedSessionKept ==
    [][ (pc \in {"ai_llm", "ai_capture", "ai_tts"} /\ pc' # pc) =>
            /\ pc' \in {"ai_capture", "ai_tts", "xfer", "recv"}
            /\ calls' = calls
            /\ session_info' = session_info
            /\ (pc' = "recv" /\ wsOpen /\ turn'.failure # None) =>
                   C13_Unavailable \in emit'
      ]_vars

\* C14: an inbound audio event whose payload is not hex or is too long is
\* rejected without transcription and the session stays open: the message
\* loop goes on with the next event, no teardown and no finalize.
C14_InvalidAudioKeepsSession ==
    [][ (\E stt_ok \in BOOLEAN : RecvAudio(FALSE, stt_ok)) =>
            /\ pc' = "recv"
            /\ ~turn'.llm
      ]_vars

\* C15: when admission is refused (invalid token, organization not found,
\* subscription inactive) the connection is closed with a close code of its
\* own for each reason, no SessionInfo exists in memory or in the store and
\* no background task, welcome or finalize runs for the connection.
C15_Refused(code) ==
    /\ pc' = "rejected" /\ emit' = {code}
    /\ ~session_info' /\ stored' = NoSession /\ session' = NoSession

C15_AdmissionRefusal ==
    /\ [][ \A found, active \in BOOLEAN :
             /\ Connect(FALSE, found, active, VoiceReady) => C15_Refused("close 4001")
             /\ Connect(TRUE, FALSE, active, VoiceReady) => C15_Refused("close 4004")
             /\ Connect(TRUE, TRUE, FALSE, VoiceReady) => C15_Refused("close 4003")
         ]_vars
    /\ [](pc = "rejected" =>
              /\ hb = "unbound" /\ mon.pc = "unbound"
              /\ calls = NoCalls /\ "welcome" \notin emit)

\* C16: when an attempt of service_request fails without a well-formed HTTP
\* response (connection error, timeout) the whole attempt is retried, up to
\* 3 attempts in total, before a result is returned to the caller.
C16_TransportFailureRetried ==
    (req.pc = "returned" /\ req.response.error # None) =>
        req.attempts = StopAfterAttempt

C18_NoExceptionToCaller ==
    /\ req.pc # "raised"
    /\ (req.attempts >= 1 /\ req.response.error # None) =>
           /\ req.pc = "returned"
           /\ req.status = ServiceUnavailable
           /\ req.body = "error: Service unavailable"

\* C18 witness: a timed-out request has returned 503.
C18_TimeoutReturned ==
    /\ req.pc = "returned" /\ req.response.error = "timeout"
    /\ req.status = ServiceUnavailable

\* C19: the effective voice of an admitted session is the organization's
\* primary voice if and only if the voice-status query returns 200 with
\* status ready; otherwise it is the configured fallback voice, or the
\* platform-wide default when no fallback is configured.
C19_Expected(v) ==
    IF v.status = 200 /\ v.voice_status = "ready" THEN PrimaryVoice
    ELSE IF v.fallback_voice_id = "" THEN FALLBACK_VOICE_ID
    ELSE v.fallback_voice_id

C19_EffectiveVoice ==
    /\ [][ \A v \in VoiceAnswers :
             (Connect(TRUE, TRUE, TRUE, v) /\ session_info') =>
                 /\ session'.voice_id = C19_Expected(v)
                 /\ (session'.voice_id = PrimaryVoice) <=>
                        (v.status = 200 /\ v.voice_status = "ready")
                 /\ stored'.voice_id = session'.voice_id
         ]_vars
    /\ [][ session_info => session'.voice_id = session.voice_id ]_vars

\* C19 witness: a session admitted while the primary voice was not ready
\* runs with the configured fallback voice.
C19_OnFallbackVoice ==
    /\ session_info /\ pc = "recv" /\ session.voice_id = "v2"

\* C20: the SessionInfo created at admission has agent_mode HUMAN for a
\* human_only plan and AI otherwise, stage GREETING, empty lead_answers and
\* asked_questions, and required_questions_pending equal to exactly the ids
\* of the organization's required lead questions.
C20_InitialSession ==
    [][ (pc = "start" /\ pc' = "setup") =>
            /\ session_info'
            /\ session'.plan_type = orgStore.plan_type
            /\ session'.agent_mode =
                   (IF orgStore.plan_type = "human_only" THEN "human" ELSE "ai")
            /\ session'.conversation_stage = "greeting"
            /\ session'.lead_answers = {}
            /\ session'.asked_questions = <<>>
            /\ \A q \in 1..NumSelect :
                   q \in session'.required_questions_pending <=>
                       (q \in orgStore.lead_questions /\ LeadQuestion(q).required)
            /\ stored' = session'
      ]_vars

\* C20 witness: a human_only organization with a required and an optional
\* question was admitted in mode HUMAN with only the required one pending.
C20_HumanOnlyAdmitted ==
    /\ pc = "setup" /\ session.plan_type = "human_only"
    /\ session.agent_mode = "human"
    /\ session.required_questions_pending # {}
    /\ \E q \in orgStore.lead_questions :
           ~LeadQuestion(q).required /\ q \notin session.required_questions_pending

\* C21: the forced-transfer endpoint succeeds only for a session in mode AI:
\* for an unknown session or one in mode HUMAN or TRANSFERRING it answers
\* with an error, starts no transfer and leaves the session unchanged; and
\* it reports success only when a transfer was initiated.
C21_ForcedTransferOnlyFromAI ==
    [][ admin'.count # admin.count =>
            /\ (~session_info \/ session.agent_mode # "ai") =>
                   /\ admin'.result \in {"404", "400"}
                   /\ admin'.pc = "idle"
                   /\ session' = session /\ stored' = stored
            /\ admin'.result = "transfer_initiated" =>
                   /\ admin'.pc = "xfer"
                   /\ session'.agent_mode = "transferring"
            /\ admin'.pc = "xfer" =>
                   session_info /\ session.agent_mode = "ai"
      ]_vars

\* C22: when handle_call_end closes a call, the leads finalize call is made
\* exactly when the session holds a captured answer; the billing record-call
\* follows as the next step of the handler whatever the leads call returned
\* and carries the session's call_duration and agent_mode; the call_end
\* event comes last, with leads_captured equal to the number of captured
\* answers; the three calls happen nowhere else and in no other order.
C22_FinalizeOrderAndPayload ==
    [][ /\ (pc \in {"recv", "finally"} /\ pc' = "ce_billing") =>
               /\ calls'.leads_finalize = calls.leads_finalize +
                      (IF session'.lead_answers # {} THEN 1 ELSE 0)
               /\ calls'.billing = calls.billing
               /\ calls'.call_end = calls.call_end
        /\ (pc = "ce_billing" /\ pc' # pc) =>
               /\ pc' = "ce_send"
               /\ calls' = [calls EXCEPT !.billing = @ + 1]
               /\ loop'.billing = [duration |-> session.call_duration,
                                   agent_mode |-> session.agent_mode]
        /\ (pc = "ce_send" /\ pc' # pc) =>
               /\ calls' = [calls EXCEPT !.call_end = @ + 1]
               /\ wsOpen =>
                     /\ "call_end" \in emit'
                     /\ \A n \in 0..NumQuestions :
                           ("leads_captured=" \o ToString(n)) \in emit'
                               <=> n = Cardinality(session.lead_answers)
        /\ calls'.leads_finalize # calls.leads_finalize =>
               pc \in {"recv", "finally"} /\ pc' = "ce_billing"
        /\ calls'.billing # calls.billing => pc = "ce_billing"
        /\ calls'.call_end # calls.call_end => pc = "ce_send"
        /\ (pc' = "ce_billing" /\ pc # pc') => pc \in {"recv", "finally"}
        /\ (pc' = "ce_send" /\ pc # pc') => pc = "ce_billing"
      ]_vars

\* C22 witness: a call that captured a lead answer has been closed with one
\* leads finalize call, a billing call and a call_end event counting it.
C22_ClosedWithLeads ==
    /\ pc = "done"
    /\ calls.leads_finalize = 1 /\ calls.billing = 1 /\ calls.call_end = 1
    /\ session.lead_answers # {}
    /\ ("leads_captured=" \o ToString(Cardinality(session.lead_answers))) \in emit

\* C23: once handle_call_end has closed the call (the call_end step was
\* taken and the handler is over), the session is in neither map of the
\* manager and its snapshot is gone from the store.
C23_GoneAfterFinalize ==
    (calls.call_end > 0 /\ pc \in {"recv", "done"}) =>
        /\ ~active_connections
        /\ ~session_info
        /\ stored = NoSession

\* C24: whenever no update_session call is in flight (every action leaves
\* the state between two calls), the stored snapshot of a session held in
\* manager.session_info equals the SessionInfo in memory, whether the
\* store accepted the last write or not.
C24_StoreEqualsMemory ==
    session_info => stored = session

\* C25: an inbound event is received only while the message loop waits in
\* receive_json with the handler of the previous event finished (no handler
\* position, no handler locals left); events are taken one by one in
\* arrival order; and the receipt stamps last_interaction_time on the
\* session and its snapshot before the handler runs, so that during every
\* handler the stamp is that of the event being handled.
C25_HandlerPositions ==
    {"ai_llm", "ai_capture", "ai_tts", "xfer", "ask", "ce_billing", "ce_send"}

C25_OneEventAtATime ==
    [][ /\ inbound' # inbound =>
               /\ pc = "recv" /\ loop = NoLoop
               /\ inbound' = inbound + 1
               /\ session'.last_interaction_time = inbound'
               /\ stored'.last_interaction_time = inbound'
        /\ pc \in C25_HandlerPositions =>
               /\ inbound' = inbound
               /\ session.last_interaction_time = inbound
               /\ session'.last_interaction_time = inbound
      ]_vars

\* C25 witness: the second event is in its handler, after the handler of
\* the first one ran to its end, and carries the second stamp.
C25_SecondEventInHandler ==
    /\ inbound = 2 /\ pc = "ai_tts"
    /\ context # <<>>
    /\ session.last_interaction_time = 2

\* C26: the forced finalize of the finally block runs only with the
\* heartbeat and monitor tasks cancelled, and once they are cancelled no
\* step of either task happens: no monitor iteration, no question asked by
\* the monitor, no heartbeat, and the session record, its snapshot and the
\* clock reading of the monitor stay as they are through the finalize.
C26_NoTaskAfterCancel ==
    [][ /\ (loop'.forced /\ pc' \in {"ce_billing", "ce_send"}) =>
               hb' = "cancelled" /\ mon'.pc = "cancelled"
        /\ (pc = "finally" /\ calls' # calls) =>
               hb' = "cancelled" /\ mon'.pc = "cancelled"
        /\ (hb = "cancelled" \/ mon.pc = "cancelled") =>
               /\ hb' = "cancelled" /\ mon' = [pc |-> "cancelled", queue |-> <<>>]
               /\ ~HeartbeatTick
               /\ ~(\E tts_ok \in BOOLEAN : MonitorAsk(tts_ok))
               /\ session' = session /\ stored' = stored /\ now' = now
      ]_vars

\* C26 witness: the forced finalize is at its call_end send with both
\* tasks cancelled, the monitor having been stopped in the middle of asking
\* the pending questions.
C26_FinalizeAfterCancel ==
    /\ pc = "ce_send" /\ loop.forced
    /\ hb = "cancelled" /\ mon.pc = "cancelled"
    /\ session.conversation_stage = "closing"
    /\ session.required_questions_pending # {}

\* C27: lead_answers only grows, by one question id per capture, and the
\* id captured has no answer recorded yet (nothing is written twice or
\* overwritten); the same update takes the id out of the pending list,
\* appends it to the asked list and stores the snapshot; and the call to
\* the leads collaborator is made after that update, as the next step of
\* the handler, and changes nothing of the session.
C27_CaptureOnceThenSend ==
    [][ /\ session.lead_answers \subseteq session'.lead_answers
        /\ session'.lead_answers # session.lead_answers =>
               /\ pc = "ai_llm" /\ pc' = "ai_capture"
               /\ loop.next_question \notin session.lead_answers
               /\ session'.lead_answers =
                      session.lead_answers \cup {loop.next_question}
               /\ session'.required_questions_pending =
                      session.required_questions_pending \ {loop.next_question}
               /\ session'.asked_questions =
                      Append(session.asked_questions, loop.next_question)
               /\ stored' = session'
        /\ (pc' = "ai_capture" /\ pc # pc') =>
               session'.lead_answers # session.lead_answers
        /\ (pc = "ai_capture" /\ pc' # pc) =>
               /\ pc' = "ai_tts"
               /\ session' = session /\ stored' = stored
               /\ loop.next_question \in session.lead_answers
               /\ loop.next_question \notin session.required_questions_pending
      ]_vars

\* C27 witness: a second answer has been captured in a later turn and its
\* capture call is about to be made.
C27_SecondCapture ==
    /\ pc = "ai_capture"
    /\ Cardinality(session.lead_answers) = 2
    /\ Len(session.asked_questions) >= 2

\* C28: the configuration the endpoint works with from line 204 on is the
\* one the session was admitted with (same plan, same required questions
\* as the session's initial pending list), and the questions the monitor
\* finds unanswered at the closing stage are those of that configuration.
C28_ConfigOfAdmission ==
    [][ /\ (pc = "setup" /\ pc' # pc /\ org_config' # NoneConfig) =>
               /\ org_config'.plan_type = session.plan_type
               /\ {q \in org_config'.lead_questions : LeadQuestion(q).required}
                      = session.required_questions_pending
        /\ (mon.pc = "sleep" /\ mon'.pc = "ask") =>
               Range(mon'.queue) = Unanswered(org_config, session')
      ]_vars

\* C29: a monitor tick changes conversation_stage only when the stage
\* recomputed from the elapsed duration differs from the one in the
\* session, and then to that stage; a session with pending required
\* questions whose stage is CLOSING after a tick is being asked them by the
\* monitor on the tick that entered CLOSING, and on no later tick.
C29_StageWriteAndClosingPrompt ==
    [][ now' # now =>
            /\ session'.conversation_stage =
                   detect_conversation_stage(session.plan_type, now')
            /\ session'.conversation_stage # session.conversation_stage =>
                   detect_conversation_stage(session.plan_type, now')
                       # session.conversation_stage
            /\ (mon.pc = "sleep" /\ mon'.pc = "ask") <=>
                   /\ session.conversation_stage # "closing"
                   /\ session'.conversation_stage = "closing"
                   /\ session.required_questions_pending # {}
      ]_vars

\* C30: the stored context changes only by an AI turn appending one user
\* turn and one assistant turn behind what is stored, and only for a turn
\* that completes with its ai_response; a turn that ends with the error
\* event, or that diverts to a transfer, leaves the stored context as it
\* was.
C30_ContextAppendOnly ==
    [][ /\ (context' # context /\ pc # "setup") =>
               /\ pc = "ai_tts"
               /\ context' = context \o <<"user", "assistant">>
               /\ "ai_response" \in emit'
        /\ (pc \in {"ai_llm", "ai_capture", "ai_tts"} /\ pc' # pc
              /\ (C13_Unavailable \in emit' \/ pc' = "xfer")) =>
               context' = context
      ]_vars

\* C31: the step in which the heartbeat task stops after a failed send
\* changes nothing but the heartbeat task: the session record and its
\* snapshot, the maps, the monitor, the position of the message loop and
\* the finalize calls are as before, so teardown starts only when the
\* message loop itself finds the peer gone.
C31_HeartbeatFailureIsLocal ==
    [][ (hb = "running" /\ hb' = "stopped") =>
            /\ ~wsOpen
            /\ session' = session /\ stored' = stored
            /\ session_info' = session_info
            /\ active_connections' = active_connections
            /\ mon' = mon
            /\ pc' = pc /\ loop' = loop
            /\ calls' = calls /\ emit' = emit
      ]_vars

\* C31 witness: the heartbeat has stopped while the message loop still
\* waits for an event and the monitor still sleeps between two iterations.
C31_HeartbeatStoppedLoopWaiting ==
    /\ hb = "stopped"
    /\ pc = "recv" /\ mon.pc = "sleep"
    /\ session_info /\ active_connections
    /\ calls = NoCalls

\* The entries the process holds for session id sid: its connection entry,
\* its SessionInfo, its stored snapshot and its conversation context.
C32_Entries(sid) ==
    [connection |-> sid \in process.active_connections,
     info |-> IF sid \in DOMAIN process.session_info
                THEN process.session_info[sid] ELSE NoSession,
     snapshot |-> IF sid \in DOMAIN process.store
                    THEN process.store[sid] ELSE NoSession,
     context |-> IF sid \in DOMAIN process.context
                   THEN <<TRUE, process.context[sid]>> ELSE <<FALSE, <<>>>>]

C33_AskedAppendOnly ==
    [][ /\ Len(session.asked_questions) <= Len(session'.asked_questions)
        /\ SubSeq(session'.asked_questions, 1, Len(session.asked_questions))
              = session.asked_questions
      ]_vars

\* C33 witness: after a lead capture the session reached the closing stage
\* with a required question pending, and three appends have been made.
C33_AppendsFromLoopAndMonitor ==
    /\ session.conversation_stage = "closing"
    /\ session.lead_answers # {}
    /\ Len(session.asked_questions) >= 3
    /\ session_info

\* C34: a configuration is accepted exactly when, if some lead question is
\* triggered at the greeting stage, exactly one greeting-stage question
\* has order 1.
C34_AcceptedIffOneGreetingFirst ==
    pc \in {"config_accepted", "config_rejected"} =>
        LET v == orgStore.lead_questions
            greeting == {i \in DOMAIN v : v[i].trigger_condition = "greeting"}
        IN  (pc = "config_accepted") <=>
               (greeting # {} =>
                    Cardinality({i \in greeting : v[i].order = 1}) = 1)

\* C35: TRANSFERRING is transient: the session is in that mode only while
\* a run of the transfer pipeline waits for the agent service; once the run
\* has ended, normally or by an exception, the mode is HUMAN or AI.
C35_TransferringOnlyDuringRun ==
    session.agent_mode = "transferring" => pc = "xfer"

\* C36: asked_questions holds no question id twice, whatever the order of
\* closing-stage prompts, end_call prompts and lead captures.
C36_AskedWithoutDuplicates ==
    Cardinality(Range(session.asked_questions)) = Len(session.asked_questions)

\* C37: for each required question the lead_question prompt is sent at
\* most once in a session, whether the stage monitor's closing-stage flow
\* or an end_call handled by the message loop sends it.
C37_PromptedAtMostOnce ==
    \A q \in Questions :
        Cardinality({i \in DOMAIN prompts : prompts[i] = q}) <= 1

C39_MapsHaveSameKeys ==
    /\ process.active_connections = DOMAIN process.session_info
    /\ health_check.active_sessions = Cardinality(DOMAIN process.session_info)

\* C40: a session of a human_only organization never has agent_mode AI:
\* it starts in HUMAN and no inbound event, transfer outcome or monitor
\* tick puts it in AI mode.
C40_HumanOnlyNeverAI ==
    session.plan_type = "human_only" => session.agent_mode # "ai"

====
